---------------------------- MODULE Spec2Model ----------------------------
(***************************************************************************)
(* A model of the flight-delay predictor: the prediction engine            *)
(* (prediction_engine.py, class DelayPredictionEngine), the real-time      *)
(* data fetcher with its timed cache (data_fetcher.py, class               *)
(* RealTimeDataFetcher), and the request handler of /api/predict (app.py,  *)
(* predict_delay) with the API client it fetches through (api_client.py,   *)
(* class FlightAPIClient), and the prediction history kept by the          *)
(* DatabaseManager of app.py and by the one of database.py.                *)
(*                                                                         *)
(* Numbers.  The code computes with binary floating point.  The model      *)
(* computes the same sums exactly, in fixed point:                         *)
(*   - a rate or a factor (0.18, 0.25, -0.10) is an integer number of      *)
(*     thousandths (180, 250, -100);                                       *)
(*   - a probability (0.34025) is an integer number of 1/100000 (34025),   *)
(*     so that weight 0.30 times a factor in thousandths is factor * 30;   *)
(*   - a confidence (0.9) is an integer number of hundredths (90).         *)
(* The code's floating-point sum differs from the exact sum by less than   *)
(* 1e-15; the model does not represent that error.                         *)
(*                                                                         *)
(* Strings.  The code's Chinese literals are written in ASCII:             *)
(*   risk_level  极低 VeryLow, 低 Low, 中 Medium, 高 High, 极高 VeryHigh      *)
(*   model_used  机器学习 ML, 规则引擎 rules, 默认引擎 default                 *)
(*   status      计划 planned, 值机 checkin, 登机 boarding, 起飞 departed,     *)
(*               到达 arrived, 延误 delayed, 取消 cancelled                   *)
(***************************************************************************)
EXTENDS Integers, Sequences, FiniteSets, TLC

VARIABLES
    \* ---- DelayPredictionEngine (prediction_engine.py) ----
    use_ml,               \* self.use_ml
    ml_model,             \* self.ml_model: "None", or "loaded"
    feature_encoder,      \* self.feature_encoder: "None", or "loaded"
    airline_delay_stats,  \* self.airline_delay_stats
    airport_delay_stats,  \* self.airport_delay_stats
    flight_info,          \* the caller's dictionary after the last predict call
    given,                \* the same dictionary as the caller passed it
    delay_prob,           \* the delay_prob last given to _format_prediction_result
    ml_outcome,           \* what became of predict's ml_result in the last call
    features,             \* the features _prepare_features built in the last call
    outcome,              \* how the last predict call ended: returned / raised
    result,               \* the dictionary the last predict call returned
    calls,                \* number of predict calls made so far
    remembered,           \* an earlier call, kept to compare a later one with
    \* ---- RealTimeDataFetcher (data_fetcher.py) ----
    cache,                \* self.cache: key -> (cached_time, data)
    mock_flights,         \* self.mock_flights
    socketio,             \* self.socketio is set
    updating,             \* the update thread of start_real_time_updates runs
    now,                  \* datetime.now(), in seconds since construction
    ticks,                \* how many times the clock was moved
    last,                 \* the last fetcher call and how it ended
    \* ---- /api/predict (app.py) ----
    request,              \* request.json of the last request (None before)
    replies,              \* what each upstream call of the request brought
    response,             \* the response of the last request
    history,              \* the records of prediction_history.json
    manager,              \* the module whose DatabaseManager keeps the history
    ids,                  \* the ids save_prediction has returned, in order
    recent,               \* what the last call, if get_recent_predictions, returned
    \* ---- threads calling the fetcher at the same time ----
    pc,                   \* the statement each thread is at
    frame,                \* each thread's local variables
    written               \* the stores into self.cache, in the order they completed

engineVars == <<use_ml, ml_model, feature_encoder, airline_delay_stats, airport_delay_stats,
                flight_info, given, delay_prob, ml_outcome, features, outcome, result, calls,
                remembered>>
fetcherVars == <<cache, mock_flights, socketio, updating, now, ticks, last>>
requestVars == <<request, replies, response, history, manager, ids, recent>>
threadVars == <<pc, frame, written>>
vars == <<engineVars, fetcherVars, requestVars, threadVars>>

\* Python's None where a dictionary is expected otherwise.
None == [none |-> TRUE]

\* "No delay_prob": the call returned without formatting a probability.
NoProb == 0 - 1

-----------------------------------------------------------------------------
(* Profile tables *)

\* _load_airline_stats: delay_rate and on_time_rate in thousandths.
LoadAirlineStats ==
    [c \in {"CA", "MU", "CZ", "HU", "ZH", "MF", "HO", "9C", "KN", "GS"} |->
        CASE c = "CA" -> [name |-> "Air China",          delay_rate |-> 180, on_time_rate |-> 820]
          [] c = "MU" -> [name |-> "China Eastern",      delay_rate |-> 220, on_time_rate |-> 780]
          [] c = "CZ" -> [name |-> "China Southern",     delay_rate |-> 200, on_time_rate |-> 800]
          [] c = "HU" -> [name |-> "Hainan Airlines",    delay_rate |-> 250, on_time_rate |-> 750]
          [] c = "ZH" -> [name |-> "Shenzhen Airlines",  delay_rate |-> 150, on_time_rate |-> 850]
          [] c = "MF" -> [name |-> "Xiamen Airlines",    delay_rate |-> 120, on_time_rate |-> 880]
          [] c = "HO" -> [name |-> "Juneyao Airlines",   delay_rate |-> 140, on_time_rate |-> 860]
          [] c = "9C" -> [name |-> "Spring Airlines",    delay_rate |-> 280, on_time_rate |-> 720]
          [] c = "KN" -> [name |-> "China United",       delay_rate |-> 200, on_time_rate |-> 800]
          [] c = "GS" -> [name |-> "Tianjin Airlines",   delay_rate |-> 230, on_time_rate |-> 770]]

\* _load_airport_stats: delay_rate in thousandths.
LoadAirportStats ==
    [a \in {"PEK", "PVG", "CAN", "SZX", "CTU", "CKG", "XIY", "HGH", "NKG", "TAO"} |->
        CASE a = "PEK" -> [name |-> "Beijing Capital",   delay_rate |-> 250, city |-> "Beijing"]
          [] a = "PVG" -> [name |-> "Shanghai Pudong",   delay_rate |-> 220, city |-> "Shanghai"]
          [] a = "CAN" -> [name |-> "Guangzhou Baiyun",  delay_rate |-> 200, city |-> "Guangzhou"]
          [] a = "SZX" -> [name |-> "Shenzhen Baoan",    delay_rate |-> 180, city |-> "Shenzhen"]
          [] a = "CTU" -> [name |-> "Chengdu Tianfu",    delay_rate |-> 150, city |-> "Chengdu"]
          [] a = "CKG" -> [name |-> "Chongqing Jiangbei", delay_rate |-> 170, city |-> "Chongqing"]
          [] a = "XIY" -> [name |-> "Xian Xianyang",     delay_rate |-> 140, city |-> "Xian"]
          [] a = "HGH" -> [name |-> "Hangzhou Xiaoshan", delay_rate |-> 160, city |-> "Hangzhou"]
          [] a = "NKG" -> [name |-> "Nanjing Lukou",     delay_rate |-> 130, city |-> "Nanjing"]
          [] a = "TAO" -> [name |-> "Qingdao Jiaodong",  delay_rate |-> 190, city |-> "Qingdao"]]

\* dict.get(key, {}) followed by .get('delay_rate', default) on a profile table.
RateOr(table, code, default) ==
    IF code \in DOMAIN table THEN table[code].delay_rate ELSE default

\* dict.get(key, {}) followed by .get('name', code) on a profile table.
NameOr(table, code) ==
    IF code \in DOMAIN table THEN table[code].name ELSE code

-----------------------------------------------------------------------------
(* datetime.strptime(f"{departure_date} {departure_time}", '%Y-%m-%d %H:%M') *)

\* A date text is modelled by the sequence of its numeric fields, <<year, month,
\* day>> when it has the shape YYYY-MM-DD, and a time text by <<hour, minute>>; a
\* text of another shape has another number of fields (<<>> for "tomorrow").
IsLeap(y) == (y % 4 = 0) /\ ((y % 100 # 0) \/ (y % 400 = 0))

DaysInMonth(y, m) ==
    IF m = 2 THEN (IF IsLeap(y) THEN 29 ELSE 28)
    ELSE IF m \in {4, 6, 9, 11} THEN 30 ELSE 31

RECURSIVE DaysBeforeMonth(_, _)
DaysBeforeMonth(y, m) ==
    IF m = 1 THEN 0 ELSE DaysBeforeMonth(y, m - 1) + DaysInMonth(y, m - 1)

\* date.toordinal(): days since 0001-01-01, that day being 1.
ToOrdinal(y, m, d) ==
    LET p == y - 1
    IN  p * 365 + (p \div 4) - (p \div 100) + (p \div 400) + DaysBeforeMonth(y, m) + d

\* date.weekday(): Monday is 0.
Weekday(y, m, d) == (ToOrdinal(y, m, d) + 6) % 7

DateParses(date) ==
    /\ Len(date) = 3
    /\ date[1] \in 1..9999
    /\ date[2] \in 1..12
    /\ date[3] \in 1..DaysInMonth(date[1], date[2])

TimeParses(time) ==
    /\ Len(time) = 2
    /\ time[1] \in 0..23
    /\ time[2] \in 0..59

\* Strptime without the check of the day against the month's length.
StrptimeAnyDay(date, time) ==
    IF Len(date) = 3 /\ date[2] \in 1..12 /\ date[3] \in 1..31 /\ TimeParses(time)
    THEN [ok |-> TRUE, hour |-> time[1], month |-> date[2], day |-> date[3],
          weekday |-> Weekday(date[1], date[2], date[3])]
    ELSE [ok |-> FALSE]

\* strptime: [ok |-> FALSE] when it raises ValueError, the parsed fields otherwise.
Strptime(date, time) ==
    IF DateParses(date) /\ TimeParses(time)
    THEN [ok |-> TRUE, hour |-> time[1], month |-> date[2], day |-> date[3],
          weekday |-> Weekday(date[1], date[2], date[3])]
    ELSE [ok |-> FALSE]

\* flight_info.get(key, default)
Get(info, key, default) == IF key \in DOMAIN info THEN info[key] ELSE default

\* What dict.setdefault(key, default) leaves of the dictionary: the key is
\* inserted when it was missing.
DictAfterSetdefault(d, key, default) ==
    IF key \in DOMAIN d THEN d
    ELSE [k \in DOMAIN d \cup {key} |-> IF k = key THEN default ELSE d[k]]

\* What dict.get(key, default) leaves of the dictionary it is called on: a
\* lookup with a default inserts nothing.
DictAfterGet(d, key, default) == d

-----------------------------------------------------------------------------
(* The rule engine's factors, in thousandths *)

\* _get_airline_factor with the default rate of _analyze_delay_factors, 0.
GetAirlineFactorDefaultZero(airline_code) == RateOr(airline_delay_stats, airline_code, 0)

\* _get_airline_factor reading the carrier's on_time_rate.
GetAirlineFactorOnTimeRate(airline_code) ==
    IF airline_code \in DOMAIN airline_delay_stats
    THEN airline_delay_stats[airline_code].on_time_rate ELSE 200

\* _get_airline_factor
GetAirlineFactor(airline_code) == RateOr(airline_delay_stats, airline_code, 200)

\* _get_airport_factor with the origin's rate alone.
GetAirportFactorOriginOnly(origin, destination) ==
    RateOr(airport_delay_stats, origin, 200)

\* _get_airport_factor: the mean of the two rates (rates are multiples of 10).
GetAirportFactor(origin, destination) ==
    LET origin_delay == RateOr(airport_delay_stats, origin, 200)
        dest_delay   == RateOr(airport_delay_stats, destination, 200)
    IN  (origin_delay + dest_delay) \div 2

\* _get_time_factor with a factor that is kept on the engine and not reset
\* between calls: each earlier call has left 0.05 in it.
GetTimeFactorKept(hour, weekday) ==
    calls * 50
    + (IF 7 <= hour /\ hour <= 9 THEN 250
       ELSE IF 17 <= hour /\ hour <= 19 THEN 200 ELSE 0)
    + (IF weekday \in {4, 5, 6} THEN 150 ELSE 0)
    - (IF 0 <= hour /\ hour <= 5 THEN 100 ELSE 0)

\* _get_time_factor
GetTimeFactor(hour, weekday) ==
    (IF 7 <= hour /\ hour <= 9 THEN 250
     ELSE IF 17 <= hour /\ hour <= 19 THEN 200 ELSE 0)
    + (IF weekday \in {4, 5, 6} THEN 150 ELSE 0)
    - (IF 0 <= hour /\ hour <= 5 THEN 100 ELSE 0)

\* _get_season_factor with the whole of October counted as the golden week.
GetSeasonFactorWholeOctober(month, day) ==
    IF month \in {1, 2} THEN 200
    ELSE IF month \in {7, 8} THEN 150
    ELSE IF month = 10 THEN 250
    ELSE IF month = 5 /\ 1 <= day /\ day <= 5 THEN 200
    ELSE 0

\* _get_season_factor
GetSeasonFactor(month, day) ==
    IF month \in {1, 2} THEN 200
    ELSE IF month \in {7, 8} THEN 150
    ELSE IF month = 10 /\ 1 <= day /\ day <= 7 THEN 250
    ELSE IF month = 5 /\ 1 <= day /\ day <= 5 THEN 200
    ELSE 0

busy_routes ==
    {<<"PEK", "PVG">>, <<"PEK", "CAN">>, <<"PVG", "CAN">>, <<"PEK", "SZX">>,
     <<"PVG", "CTU">>}

\* _get_route_factor with nothing added for a route that is not busy.
GetRouteFactorNoDefault(origin, destination) ==
    IF <<origin, destination>> \in busy_routes THEN 150
    ELSE IF <<destination, origin>> \in busy_routes THEN 100
    ELSE 0

\* _get_route_factor
GetRouteFactor(origin, destination) ==
    IF <<origin, destination>> \in busy_routes THEN 150
    ELSE IF <<destination, origin>> \in busy_routes THEN 100
    ELSE 50

\* The weighted sum of _predict_with_rules (lines 167-188), in 1/100000:
\* base 0.15, weights 0.30, 0.25, 0.20, 0.15, 0.10 on factors in thousandths.
BaseProb(airline, origin, destination, dt) ==
    15000
    + GetAirlineFactor(airline) * 30
    + GetAirportFactor(origin, destination) * 25
    + GetTimeFactor(dt.hour, dt.weekday) * 20
    + GetSeasonFactor(dt.month, dt.day) * 15
    + GetRouteFactor(origin, destination) * 10

Min(a, b) == IF a < b THEN a ELSE b
Max(a, b) == IF a > b THEN a ELSE b

\* max(0.05, min(0.95, base_prob))
Clamp(base_prob) == Max(5000, Min(95000, base_prob))

-----------------------------------------------------------------------------
(* _analyze_delay_factors *)

Factor(text, subject) == [text |-> text, subject |-> subject]

\* The baseline factor ("under regular operating conditions").
Baseline == Factor("regular operating conditions", "")

\* The baseline factor appended to an empty list only.
FewFactorsOnlyEmpty(factors) == Len(factors) < 1

\* Line 319: whether the baseline factor is appended.
FewFactors(factors) == Len(factors) < 2

AnalyzeDelayFactors(airline, origin, destination, hour, weekday, month, day) ==
    LET f1 == IF RateOr(airline_delay_stats, airline, 0) > 250
              THEN <<Factor("historical delay rate is high",
                            NameOr(airline_delay_stats, airline))>>
              ELSE <<>>
        f2 == IF RateOr(airport_delay_stats, origin, 0) > 250
              THEN <<Factor("is a busy airport", NameOr(airport_delay_stats, origin))>>
              ELSE <<>>
        f3 == IF RateOr(airport_delay_stats, destination, 0) > 250
              THEN <<Factor("arrival delay risk is high",
                            NameOr(airport_delay_stats, destination))>>
              ELSE <<>>
        f4 == IF 7 <= hour /\ hour <= 9 THEN <<Factor("morning peak", "")>>
              ELSE IF 17 <= hour /\ hour <= 19 THEN <<Factor("evening peak", "")>>
              ELSE <<>>
        f5 == IF month \in {1, 2} THEN <<Factor("spring festival travel season", "")>>
              ELSE IF month \in {7, 8} THEN <<Factor("summer travel season", "")>>
              ELSE <<>>
        f6 == IF weekday \in {4, 5, 6} THEN <<Factor("weekend traffic", "")>>
              ELSE <<>>
        factors == f1 \o f2 \o f3 \o f4 \o f5 \o f6
    IN  IF FewFactors(factors) THEN Append(factors, Baseline) ELSE factors

-----------------------------------------------------------------------------
(* _format_prediction_result and _get_default_prediction *)

\* round(delay_prob, 3): to the nearest thousandth (a multiple of 100 here), an
\* exact tie going to the even thousandth.
Round3(p) ==
    LET q == p \div 100
        r == p % 100
    IN  IF r < 50 THEN q * 100
        ELSE IF r > 50 THEN (q + 1) * 100
        ELSE IF q % 2 = 0 THEN q * 100 ELSE (q + 1) * 100

\* Lines 356-367: the range np.random.randint draws the estimated delay from
\* (lo inclusive, hi exclusive) and the confidence, in hundredths.
DelayBucket(p) ==
    IF p < 30000 THEN [lo |-> 0, hi |-> 15, confidence |-> 90]
    ELSE IF p < 60000 THEN [lo |-> 15, hi |-> 45, confidence |-> 80]
    ELSE [lo |-> 45, hi |-> 120, confidence |-> 70]

\* The risk level with the thresholds taken inclusive (<= for <).
RiskLevelInclusive(p) ==
    IF p <= 20000 THEN "VeryLow"
    ELSE IF p <= 40000 THEN "Low"
    ELSE IF p <= 60000 THEN "Medium"
    ELSE IF p <= 80000 THEN "High"
    ELSE "VeryHigh"

\* Lines 369-379: the risk level that is returned.
RiskLevel(p) ==
    IF p < 20000 THEN "VeryLow"
    ELSE IF p < 40000 THEN "Low"
    ELSE IF p < 60000 THEN "Medium"
    ELSE IF p < 80000 THEN "High"
    ELSE "VeryHigh"

\* The values np.random.randint(lo, hi) can return for delay_prob p.
EstimatedDelays(p) == DelayBucket(p).lo .. (DelayBucket(p).hi - 1)

\* The outcome of a function the model lets raise: ok with its value, or raised.
Returned(v) == [raised |-> FALSE, value |-> v]
Raised == [raised |-> TRUE]

\* _format_prediction_result; estimated_delay is the number np.random.randint
\* drew.  factors = None is given as the empty sequence (no caller passes an
\* empty list: _analyze_delay_factors returns at least one factor).  It raises
\* KeyError when flight_info lacks a key it indexes, ValueError when the date or
\* the time does not parse.  The timestamp field is left out.
FormatPredictionResult(p, info, model_type, importance, factors, estimated_delay) ==
    IF ~ {"airline", "origin", "destination"} \subseteq DOMAIN info THEN Raised
    ELSE IF factors = <<>> /\
            (\/ ~ {"departure_date", "departure_time"} \subseteq DOMAIN info
             \/ ~ TimeParses(info.departure_time)
             \/ ~ DateParses(info.departure_date)) THEN Raised
    ELSE
    LET dt == Strptime(info.departure_date, info.departure_time)
        fs == IF factors = <<>>
              THEN AnalyzeDelayFactors(info.airline, info.origin, info.destination,
                                       dt.hour, dt.weekday, dt.month, dt.day)
              ELSE factors
    IN  Returned(
        [delay_probability       |-> Round3(p),
         estimated_delay_minutes |-> estimated_delay,
         risk_level              |-> RiskLevel(p),
         confidence              |-> DelayBucket(p).confidence,
         model_used              |-> model_type,
         factors                 |-> fs,
         airline_info |-> [code |-> info.airline,
                           name |-> NameOr(airline_delay_stats, info.airline),
                           historical_delay_rate |->
                               RateOr(airline_delay_stats, info.airline, 200)],
         route_info |->
            [origin |-> [code |-> info.origin,
                         name |-> NameOr(airport_delay_stats, info.origin),
                         delay_rate |-> RateOr(airport_delay_stats, info.origin, 200)],
             destination |-> [code |-> info.destination,
                              name |-> NameOr(airport_delay_stats, info.destination),
                              delay_rate |->
                                  RateOr(airport_delay_stats, info.destination, 200)]],
         feature_importance |-> importance])

\* _get_default_prediction with the risk level its probability of 0.3 has in
\* the thresholds of _format_prediction_result.
GetDefaultPredictionLow ==
    [delay_probability       |-> 30000,
     estimated_delay_minutes |-> 15,
     risk_level              |-> RiskLevel(30000),
     confidence              |-> 50,
     model_used              |-> "default",
     factors                 |-> <<Factor("the system cannot analyse the factors for now", "")>>,
     airline_info |-> [code |-> "UNKNOWN", name |-> "unknown", historical_delay_rate |-> 200],
     route_info |-> [origin |-> [code |-> "UNK", name |-> "unknown", delay_rate |-> 200],
                     destination |-> [code |-> "UNK", name |-> "unknown", delay_rate |-> 200]]]

\* _get_default_prediction (it has no feature_importance key).
GetDefaultPrediction ==
    [delay_probability       |-> 30000,
     estimated_delay_minutes |-> 15,
     risk_level              |-> "Medium",
     confidence              |-> 50,
     model_used              |-> "default",
     factors                 |-> <<Factor("the system cannot analyse the factors for now", "")>>,
     airline_info |-> [code |-> "UNKNOWN", name |-> "unknown", historical_delay_rate |-> 200],
     route_info |-> [origin |-> [code |-> "UNK", name |-> "unknown", delay_rate |-> 200],
                     destination |-> [code |-> "UNK", name |-> "unknown", delay_rate |-> 200]]]

-----------------------------------------------------------------------------
(* The learned-model path *)

\* What the loaded model does in one call, as far as predict can tell: proba is
\* the probability predict_proba returns, or PredictProbaError when the
\* encoder's transform or predict_proba raises; has_importances is whether the
\* model has feature_importances_.
PredictProbaError == 0 - 2

\* _prepare_features: [ok |-> FALSE] when it raises (KeyError on a missing key,
\* ValueError from strptime); the encoding itself is part of the model's
\* behaviour (MlEnv).
PrepareFeatures(info) ==
    IF ~ {"departure_date", "departure_time", "airline", "origin", "destination"}
            \subseteq DOMAIN info
    THEN [ok |-> FALSE]
    ELSE LET dt == Strptime(info.departure_date, info.departure_time)
         IN  IF ~ dt.ok THEN [ok |-> FALSE]
             ELSE [ok |-> TRUE,
                   airline |-> info.airline, origin |-> info.origin,
                   destination |-> info.destination,
                   hour |-> dt.hour, month |-> dt.month,
                   weekday |-> dt.weekday, day |-> dt.day,
                   is_peak |-> IF (7 <= dt.hour /\ dt.hour <= 9)
                                  \/ (17 <= dt.hour /\ dt.hour <= 19) THEN 1 ELSE 0,
                   is_weekend |-> IF dt.weekday >= 5 THEN 1 ELSE 0,
                   is_holiday_season |-> IF dt.month \in {1, 2, 7, 8, 10} THEN 1 ELSE 0]

\* _predict_with_ml up to its call of _format_prediction_result (lines 122-135):
\* [ok |-> FALSE] when an exception sends it to its handler.
MlAttempt(info, env) ==
    IF ~ PrepareFeatures(info).ok THEN [ok |-> FALSE]
    ELSE IF env.proba = PredictProbaError THEN [ok |-> FALSE]
    ELSE IF env.has_importances /\ feature_encoder = "None" THEN [ok |-> FALSE]
    ELSE [ok |-> TRUE, delay_prob |-> env.proba,
          importance |-> IF env.has_importances THEN "importances" ELSE "None"]

\* _predict_with_ml with a handler that answers with the default prediction.
PredictWithMlDefaultOnError(info, env, estimated_delay) ==
    LET a == MlAttempt(info, env)
    IN  IF ~ a.ok THEN GetDefaultPrediction
        ELSE LET r == FormatPredictionResult(a.delay_prob, info, "ML", a.importance,
                                             <<>>, estimated_delay)
             IN  IF r.raised THEN GetDefaultPrediction ELSE r.value

\* _predict_with_ml: the result, or None from its handler (lines 144-146).
PredictWithMl(info, env, estimated_delay) ==
    LET a == MlAttempt(info, env)
    IN  IF ~ a.ok THEN None
        ELSE LET r == FormatPredictionResult(a.delay_prob, info, "ML", a.importance,
                                             <<>>, estimated_delay)
             IN  IF r.raised THEN None ELSE r.value

-----------------------------------------------------------------------------
(* The rule engine path *)

\* _predict_with_rules up to its call of _format_prediction_result (lines
\* 151-196): [ok |-> FALSE] when strptime raises.
RulesAttempt(info) ==
    LET airline     == Get(info, "airline", "CA")
        origin      == Get(info, "origin", "PEK")
        destination == Get(info, "destination", "PVG")
        dt == Strptime(Get(info, "departure_date", <<2024, 1, 1>>),
                       Get(info, "departure_time", <<12, 0>>))
    IN  IF ~ dt.ok THEN [ok |-> FALSE]
        ELSE [ok |-> TRUE,
              delay_prob |-> Clamp(BaseProb(airline, origin, destination, dt)),
              factors |-> AnalyzeDelayFactors(airline, origin, destination,
                                              dt.hour, dt.weekday, dt.month, dt.day)]

\* The handler of _predict_with_rules (lines 205-207).
RulesHandler(r) == IF r.raised THEN Returned(GetDefaultPrediction) ELSE r

\* _predict_with_rules
PredictWithRules(info, estimated_delay) ==
    LET a == RulesAttempt(info)
    IN  RulesHandler(IF ~ a.ok THEN Raised
                     ELSE FormatPredictionResult(a.delay_prob, info, "rules", "None",
                                                 a.factors, estimated_delay))

-----------------------------------------------------------------------------
(* predict *)

\* `if self.use_ml and self.ml_model`
MlAvailable == use_ml /\ ml_model # "None"

\* The handler of predict (lines 116-118).
PredictHandler(r) == IF r.raised THEN Returned(GetDefaultPrediction) ELSE r

\* Lines 108-109: predict's local ml_result, None also when _predict_with_ml is
\* not called.
MlResult(info, env, estimated_delay) ==
    IF MlAvailable THEN PredictWithMl(info, env, estimated_delay) ELSE None

\* predict from line 110 on, given ml_result: what the call does, returned with
\* its value or raised.
PredictOutcome(info, ml_result, estimated_delay) ==
    PredictHandler(IF ml_result # None THEN Returned(ml_result)
                   ELSE PredictWithRules(info, estimated_delay))

\* What became of ml_result (lines 108-111): _predict_with_ml was not called,
\* or it returned None, or it returned a result.
MlOutcome(ml_result) ==
    IF ~ MlAvailable THEN "not called"
    ELSE IF ml_result = None THEN "None"
    ELSE "result"

\* The features dictionary of line 332, None when _prepare_features did not run
\* or raised before building it.
FeaturesBuilt(info) ==
    IF MlAvailable /\ PrepareFeatures(info).ok THEN PrepareFeatures(info) ELSE None

\* The delay_prob the returned result was formatted from (NoProb for the default
\* prediction): it decides the range the estimated delay is drawn from.
FormattedProb(info, env) ==
    LET ml == MlAttempt(info, env)
        ru == RulesAttempt(info)
    IN  IF MlAvailable /\ ml.ok
           /\ ~ FormatPredictionResult(ml.delay_prob, info, "ML", ml.importance, <<>>, 0).raised
        THEN ml.delay_prob
        ELSE IF ru.ok
                /\ ~ FormatPredictionResult(ru.delay_prob, info, "rules", "None",
                                            ru.factors, 0).raised
        THEN ru.delay_prob
        ELSE NoProb

-----------------------------------------------------------------------------
(* The engine as a state machine *)

\* The largest number of predict calls in one behaviour of RepeatSpec.
MaxCalls == 3

\* Carrier codes a query may give: two known ones (rates 0.18 and 0.28) and an
\* unknown one.
Airlines == {"CA", "9C", "ZZ"}

\* Routes a query may give, <<origin, destination>>: a busy route, its reverse,
\* a known airport to an unknown one, and two unknown airports.
Routes == {<<"PEK", "PVG">>, <<"PVG", "PEK">>, <<"PEK", "XXX">>, <<"XXX", "YYY">>}

\* Departure dates: a Monday in January, a Monday in July, 1 and 8 October, a
\* Friday in the May holiday, and two texts strptime rejects (30 February, and a
\* text that is no date at all).
Dates ==
    {<<2024, 1, 1>>, <<2024, 7, 15>>, <<2024, 10, 1>>, <<2024, 10, 8>>,
     <<2024, 5, 3>>, <<2024, 2, 30>>, <<>>}

\* Departure times: night, morning peak, midday, evening peak, and 25:00.
Times == {<<3, 0>>, <<8, 15>>, <<12, 0>>, <<18, 30>>, <<25, 0>>}

\* The flight_info dictionaries given to predict: every key present, or the
\* airline key missing.
FlightInfos ==
    {[airline |-> a, flight_number |-> "1234", origin |-> r[1], destination |-> r[2],
      departure_date |-> d, departure_time |-> t] :
        a \in Airlines, r \in Routes, d \in Dates, t \in Times}
    \cup
    {[flight_number |-> "1234", origin |-> r[1], destination |-> r[2],
      departure_date |-> d, departure_time |-> t] :
        r \in Routes, d \in Dates, t \in Times}

\* The few dictionaries RepeatSpec calls predict with, again and again.
RepeatInfos ==
    [airline : {"CA"}, flight_number : {"1234"}, origin : {"PEK"},
     destination : {"PVG"}, departure_date : {<<2024, 7, 15>>, <<2024, 2, 30>>},
     departure_time : {<<3, 0>>}]

\* The dates of the wide queries: a week without a season, Monday 4 to Sunday
\* 10 March 2024, and the days at the edges of each season window.
WideDates ==
    {<<2024, 3, d>> : d \in 4..10}
    \cup {<<2024, 1, 31>>, <<2024, 2, 29>>, <<2024, 4, 30>>, <<2024, 5, 1>>, <<2024, 5, 5>>,
          <<2024, 5, 6>>, <<2024, 6, 30>>, <<2024, 7, 6>>, <<2024, 8, 31>>, <<2024, 9, 30>>,
          <<2024, 10, 1>>, <<2024, 10, 7>>, <<2024, 10, 8>>, <<2024, 10, 31>>,
          <<2024, 12, 31>>}

\* The queries of WideSpec: every hour of the day on each of the wide dates,
\* for a carrier with a high rate and an unknown one on a busy route, and four
\* hours of the day for carrier CA on the reverse of a busy route and from an
\* unknown airport.
WideInfos ==
    [airline : {"9C", "ZZ"}, flight_number : {"1234"},
     origin : {"PEK"}, destination : {"PVG"},
     departure_date : WideDates, departure_time : {<<h, 30>> : h \in 0..23}]
    \cup
    [airline : {"CA"}, flight_number : {"1234"},
     origin : {"PVG", "XXX"}, destination : {"PEK"},
     departure_date : WideDates, departure_time : {<<h, 0>> : h \in {3, 8, 12, 18}}]

\* The queries of TableSpec: every carrier and every airport of the built-in
\* tables, and a code they do not hold, at the two ends of the time and season
\* factors: a Tuesday night in March, and a Saturday morning of the October
\* golden week.
TableInfos ==
    [airline : DOMAIN LoadAirlineStats \cup {"ZZ"}, flight_number : {"1234"},
     origin : DOMAIN LoadAirportStats \cup {"XXX"},
     destination : DOMAIN LoadAirportStats \cup {"XXX"},
     departure_date : {<<2024, 3, 5>>}, departure_time : {<<3, 0>>}]
    \cup
    [airline : DOMAIN LoadAirlineStats \cup {"ZZ"}, flight_number : {"1234"},
     origin : DOMAIN LoadAirportStats \cup {"XXX"},
     destination : DOMAIN LoadAirportStats \cup {"XXX"},
     departure_date : {<<2024, 10, 5>>}, departure_time : {<<8, 0>>}]

\* Probabilities a learned model may return (predict_proba: any value in [0, 1]).
MlProbas == {0, 20000, 40000, 60000, 80000, 97000}

\* What the learned model may do in a call; it is not consulted when absent.
MlEnvs ==
    IF MlAvailable
    THEN [proba : MlProbas \cup {PredictProbaError}, has_importances : BOOLEAN]
    ELSE {[proba |-> PredictProbaError, has_importances |-> FALSE]}

\* The fewer things RepeatSpec lets it do: return 0.05, or raise.
RepeatMlEnvs ==
    IF MlAvailable
    THEN [proba : {5000, PredictProbaError}, has_importances : {FALSE}]
    ELSE {[proba |-> PredictProbaError, has_importances |-> FALSE]}

\* The numbers np.random.randint may draw for the result (none for the default
\* prediction, which draws nothing: one value stands for it).
Draws(p) == IF p = NoProb THEN {0} ELSE EstimatedDelays(p)

\* The engine after __init__ (lines 18-37 and _load_ml_model): without use_ml no
\* model is loaded; with it, the files are absent or the model fails to load, or
\* both load, or the model loads and the encoder's load raises.
EngineInit ==
    /\ airline_delay_stats = LoadAirlineStats
    /\ airport_delay_stats = LoadAirportStats
    /\ \/ use_ml = FALSE /\ ml_model = "None" /\ feature_encoder = "None"
       \/ use_ml = TRUE /\ ml_model = "None" /\ feature_encoder = "None"
       \/ use_ml = TRUE /\ ml_model = "loaded" /\ feature_encoder = "loaded"
       \/ use_ml = TRUE /\ ml_model = "loaded" /\ feature_encoder = "None"
    /\ flight_info = None
    /\ given = None
    /\ delay_prob = NoProb
    /\ ml_outcome = "not called"
    /\ features = None
    /\ outcome = "none"
    /\ result = None
    /\ calls = 0
    /\ remembered = None

\* What remembered keeps of a call.
Memo(info, o) ==
    [call |-> calls + 1, flight_info |-> info, raised |-> o.raised,
     delay_probability |-> IF o.raised THEN NoProb ELSE o.value.delay_probability,
     estimated_delay_minutes |-> IF o.raised THEN NoProb
                                 ELSE o.value.estimated_delay_minutes,
     model_used |-> IF o.raised THEN "None" ELSE o.value.model_used]

\* {}, the default of the profile lookups.
EmptyProfile == [k \in {} |-> ""]

\* self.airline_delay_stats after the lookups of a call that reached them:
\* .get(airline, {}) in _get_airline_factor, _analyze_delay_factors and
\* _format_prediction_result.
AirlineStatsAfter(info) ==
    DictAfterGet(airline_delay_stats, Get(info, "airline", "CA"), EmptyProfile)

\* self.airport_delay_stats after the lookups of a call that reached them:
\* .get(origin, {}) and .get(destination, {}) in the same three places.
AirportStatsAfter(info) ==
    DictAfterGet(DictAfterGet(airport_delay_stats, Get(info, "origin", "PEK"), EmptyProfile),
                 Get(info, "destination", "PVG"), EmptyProfile)

\* The call reached the lookups in the tables: _format_prediction_result was
\* reached for the learned model's probability (lines 382-387), or the rule
\* engine got past strptime (line 170).
LookupsReached(info, ml_result) == ml_result # None \/ RulesAttempt(info).ok

\* The caller's flight_info after _predict_with_rules has read it: five
\* .get(key, default), run before anything of the rule engine can raise.
InfoAfterRules(info) ==
    DictAfterGet(DictAfterGet(DictAfterGet(DictAfterGet(DictAfterGet(info,
        "airline", "CA"), "origin", "PEK"), "destination", "PVG"),
        "departure_date", <<2024, 1, 1>>), "departure_time", <<12, 0>>)

\* One call of predict(flight_info), as far as the engine goes; keep: remember
\* it as the earlier call.
PredictCall(info, keep, envs) ==
    \E env \in envs :
      \E p \in {FormattedProb(info, env)} :
        \E estimated_delay \in Draws(p) :
         \E ml_result \in {MlResult(info, env, estimated_delay)} :
          \E o \in {PredictOutcome(info, ml_result, estimated_delay)} :
            /\ given' = info
            \* the learned path reads flight_info by subscript, the rule engine by .get
            /\ flight_info' = IF ml_result = None THEN InfoAfterRules(info) ELSE info
            /\ delay_prob' = p
            /\ ml_outcome' = MlOutcome(ml_result)
            /\ features' = FeaturesBuilt(info)
            /\ outcome' = IF o.raised THEN "raised" ELSE "returned"
            /\ result' = IF o.raised THEN None ELSE o.value
            /\ calls' = calls + 1
            /\ remembered' = IF keep THEN Memo(info, o) ELSE remembered
            /\ airline_delay_stats' = IF LookupsReached(info, ml_result)
                                       THEN AirlineStatsAfter(info) ELSE airline_delay_stats
            /\ airport_delay_stats' = IF LookupsReached(info, ml_result)
                                       THEN AirportStatsAfter(info) ELSE airport_delay_stats
            /\ UNCHANGED <<use_ml, ml_model, feature_encoder>>

\* predict(flight_info) called on its own.
Predict(info, keep, envs) ==
    /\ PredictCall(info, keep, envs)
    /\ UNCHANGED <<fetcherVars, requestVars, threadVars>>

\* One request: a single predict call on a fresh engine, any flight_info.
PredictOnce ==
    /\ calls = 0
    /\ \E info \in FlightInfos : Predict(info, FALSE, MlEnvs)

\* One request on a fresh engine, its date and hour taken from the wide sets.
PredictWide ==
    /\ calls = 0
    /\ \E info \in WideInfos : Predict(info, FALSE, RepeatMlEnvs)

\* One request on a fresh engine, for any carrier and airports of the tables.
PredictTable ==
    /\ calls = 0
    /\ \E info \in TableInfos : Predict(info, FALSE, RepeatMlEnvs)

\* A predict call among several on the same engine.
PredictAgain ==
    /\ calls < MaxCalls
    /\ \E info \in RepeatInfos :
         \E keep \in {k \in BOOLEAN : k => remembered = None} :
           Predict(info, keep, RepeatMlEnvs)

-----------------------------------------------------------------------------
(* RealTimeDataFetcher: the cache *)

\* self.cache_timeout, in seconds.
cache_timeout == 300

\* timedelta.seconds: the seconds field of a non-negative timedelta, which
\* leaves out its days (timedelta normalises to days, 0 <= seconds < 86400).
TimedeltaSeconds(delta) == delta % 86400

\* f"flight_{flight_number}" and f"weather_{airport_code}": a key is the prefix
\* and the code it was built from.
FlightKey(flight_number) == <<"flight", flight_number>>
WeatherKey(airport_code) == <<"weather", airport_code>>

\* Lines 76-79 and 127-130: whether the lookup returns the cached data.
CacheIsLive(cache_key) ==
    /\ cache_key \in DOMAIN cache
    /\ TimedeltaSeconds(now - cache[cache_key].cached_time) < cache_timeout

\* self.cache[cache_key] = (datetime.now(), data)
CachePut(c, cache_key, data) ==
    [k \in DOMAIN c \cup {cache_key} |->
        IF k = cache_key THEN [cached_time |-> now, data |-> data] ELSE c[k]]

\* A cached flight is the dictionary of self.mock_flights itself, not a copy:
\* the model keeps its index, and the data read through the cache is whatever
\* that dictionary holds when it is read.
FlightRef(i) == [ref |-> i]
Deref(flights, data) == IF "ref" \in DOMAIN data THEN flights[data.ref] ELSE data

-----------------------------------------------------------------------------
(* RealTimeDataFetcher: the mock flights *)

\* The number of mock flights (20 in the code) and how many of them, from the
\* first on, the update loop touches (10 in the code).
MockFlightCount == 1
UpdatedFlightCount == 1

\* The airline of mock flight i (airlines[i % len(airlines)], i from 0).
MockAirline(i) == <<"CA", "MU", "CZ", "HU", "ZH", "MF">>[((i - 1) % 6) + 1]

\* Its flight number, f"{airline}{random.randint(1000, 9999)}": the model gives
\* flight i the number 1000 + i, so no two flights share a flight number.
MockFlightNumber(i) == <<MockAirline(i), 1000 + i>>

\* The statuses _generate_mock_flights draws from.
AllStatuses ==
    {"planned", "checkin", "boarding", "departed", "arrived", "delayed", "cancelled"}

\* The statuses in the order the code advances them.
statuses == <<"planned", "checkin", "boarding", "departed", "arrived">>

\* statuses.index(status), from 0.
StatusIndex(status) == CHOOSE i \in 0..4 : statuses[i + 1] = status

\* Minutes random.randint(0, 120) and random.randint(5, 60) may draw; the model
\* draws from these.
InitialDelays == {30}
UpdatedDelays == {5, 60}

\* A mock flight of _generate_mock_flights (gate and the clock texts left out).
MockFlight(i, status, delay_minutes) ==
    [flight_number |-> MockFlightNumber(i), airline |-> MockAirline(i),
     status |-> status,
     delay_minutes |-> IF status = "delayed" THEN delay_minutes ELSE 0,
     last_updated |-> 0]

\* Lines 89-92: the status after get_flight_status found the flight; advance is
\* random.random() < 0.3.  A status outside the sequence counts as index 0.
AdvancedStatus(status, advance) ==
    LET current_idx == IF status \in {statuses[i] : i \in 1..5}
                       THEN StatusIndex(status) ELSE 0
    IN  IF current_idx < 5 - 1 /\ advance THEN statuses[current_idx + 2] ELSE status

\* The index of the first mock flight with this flight number, 0 if none.
FindFlight(flight_number) ==
    IF \E i \in 1..Len(mock_flights) : mock_flights[i].flight_number = flight_number
    THEN CHOOSE i \in 1..Len(mock_flights) :
            /\ mock_flights[i].flight_number = flight_number
            /\ \A j \in 1..(i - 1) : mock_flights[j].flight_number # flight_number
    ELSE 0

-----------------------------------------------------------------------------
(* RealTimeDataFetcher as a state machine *)

\* How many times the clock is moved in one behaviour.
MaxTicks == 2

\* By how much the clock moves between two calls, in seconds: half the cache
\* timeout, or that much less than a day.
Advances == {150, 86250}

\* The flight numbers asked for: the mock flights' and two that no mock flight has.
FlightNumbers ==
    {MockFlightNumber(i) : i \in 1..MockFlightCount} \cup {<<"CA", 9999>>, <<"ZZ", 9999>>}

\* The airports whose weather is asked for.
WeatherAirports == {"PEK"}

\* Conditions random.choice may draw in every season.
Conditions == {"sunny", "cloudy"}

\* What last holds before any call.
NoCall ==
    [op |-> "none", key |-> <<>>, at |-> 0, had_entry |-> FALSE, age |-> 0,
     retry |-> FALSE, outcome |-> "none", value |-> None]

\* What last holds after a call: op and key; at, the time of the call; had_entry
\* and age, whether the cache held the key and for how long; retry, whether the
\* call comes right after a call for the same key that raised, the clock not
\* moved; outcome, hit (the cached data returned), computed (fresh data
\* returned) or raised; value, what was returned.
Call(op, cache_key, outcome_, value) ==
    [op |-> op, key |-> cache_key, at |-> now,
     had_entry |-> cache_key \in DOMAIN cache,
     age |-> IF cache_key \in DOMAIN cache THEN now - cache[cache_key].cached_time ELSE 0,
     retry |-> last.outcome = "raised" /\ last.key = cache_key /\ last.at = now,
     outcome |-> outcome_, value |-> value]

\* __init__: an empty cache and the generated mock flights.
FetcherInit ==
    /\ cache = <<>>
    /\ \E st \in [1..MockFlightCount -> AllStatuses] :
         \E dl \in [1..MockFlightCount -> InitialDelays] :
           mock_flights = [i \in 1..MockFlightCount |-> MockFlight(i, st[i], dl[i])]
    /\ socketio \in BOOLEAN
    /\ updating = FALSE
    /\ now = 0
    /\ ticks = 0
    /\ last = NoCall

\* The cache when the new flight is stored before it is built.
CacheAfterNotFoundStored(c, cache_key) ==
    CachePut(c, cache_key, [flight_number |-> cache_key[2], status |-> "planned",
                            delay_minutes |-> 0])

\* The cache after get_flight_status found no such flight: building the new
\* flight raises at line 112 (random is a local name of the function, bound only
\* by the import at line 88, which has not run), so line 119 is not reached.
CacheAfterNotFound(c, cache_key) == c

\* get_flight_status(flight_number)
GetFlightStatus(flight_number) ==
    LET cache_key == FlightKey(flight_number)
        i == FindFlight(flight_number)
    IN  /\ IF CacheIsLive(cache_key)
           THEN /\ last' = Call("get_flight_status", cache_key, "hit",
                                Deref(mock_flights, cache[cache_key].data))
                /\ UNCHANGED <<cache, mock_flights>>
           ELSE IF i # 0
           THEN \E advance \in BOOLEAN :
                /\ mock_flights' = [mock_flights EXCEPT
                                      ![i].status = AdvancedStatus(@, advance)]
                /\ cache' = CachePut(cache, cache_key, FlightRef(i))
                /\ last' = Call("get_flight_status", cache_key, "computed",
                                mock_flights'[i])
           ELSE /\ cache' = CacheAfterNotFound(cache, cache_key)
                /\ last' = Call("get_flight_status", cache_key, "raised", None)
                /\ UNCHANGED mock_flights
        /\ UNCHANGED <<socketio, updating, now, ticks>>
        /\ UNCHANGED <<engineVars, requestVars, threadVars>>

\* get_weather_data(airport_code); of the weather dictionary the model keeps
\* the airport, the condition and updated_at.
GetWeatherData(airport_code) ==
    LET cache_key == WeatherKey(airport_code)
    IN  /\ IF CacheIsLive(cache_key)
           THEN /\ last' = Call("get_weather_data", cache_key, "hit",
                                Deref(mock_flights, cache[cache_key].data))
                /\ UNCHANGED cache
           ELSE \E condition \in Conditions :
                LET weather_data == [airport |-> airport_code,
                                     condition |-> condition, updated_at |-> now]
                IN  /\ cache' = CachePut(cache, cache_key, weather_data)
                    /\ last' = Call("get_weather_data", cache_key, "computed",
                                    weather_data)
        /\ UNCHANGED <<mock_flights, socketio, updating, now, ticks>>
        /\ UNCHANGED <<engineVars, requestVars, threadVars>>

\* Time passes between two calls.
Tick ==
    /\ ticks < MaxTicks
    /\ \E d \in Advances : now' = now + d
    /\ ticks' = ticks + 1
    /\ UNCHANGED <<cache, mock_flights, socketio, updating, last>>
    /\ UNCHANGED <<engineVars, requestVars, threadVars>>

\* start_real_time_updates: without socketio it returns at once.
StartRealTimeUpdates ==
    /\ updating' = (updating \/ socketio)
    /\ UNCHANGED <<cache, mock_flights, socketio, now, ticks, last>>
    /\ UNCHANGED <<engineVars, requestVars, threadVars>>

\* Lines 245-255: what one pass of the update loop does to a flight it picked.
UpdatedFlight(flight, delay_minutes) ==
    LET status == IF flight.status \in {statuses[i] : i \in 1..5}
                     /\ StatusIndex(flight.status) < 5 - 1
                  THEN statuses[StatusIndex(flight.status) + 2]
                  ELSE flight.status
    IN  [flight EXCEPT !.status = status,
                       !.last_updated = now,
                       !.delay_minutes = IF status = "delayed" THEN delay_minutes ELSE @]

\* One pass of update_loop over self.mock_flights[:10]: picked is the set of
\* flights for which random.random() < 0.2.
UpdateLoopPass ==
    /\ updating
    /\ \E picked \in SUBSET (1..Min(UpdatedFlightCount, Len(mock_flights))) :
         \E delay_minutes \in UpdatedDelays :
           mock_flights' = [i \in 1..Len(mock_flights) |->
                              IF i \in picked
                              THEN UpdatedFlight(mock_flights[i], delay_minutes)
                              ELSE mock_flights[i]]
    /\ UNCHANGED <<cache, socketio, updating, now, ticks, last>>
    /\ UNCHANGED <<engineVars, requestVars, threadVars>>

-----------------------------------------------------------------------------
(* /api/predict: predict_delay and the API client *)

\* The five upstream calls of a request, by the variable that takes the result
\* (flight_info_result, origin_weather_result, ...).
Signals ==
    {"flight_info", "origin_weather", "dest_weather", "airline_stats", "flight_history"}

\* What requests.get and response.json() may bring in a client call:
\*   timeout            an exception inside the client's try block (a timeout, a
\*                      refused connection, an HTTP error status, a body that
\*                      is no JSON)
\*   not an object      a JSON body that is not an object, such as []
\*   error status       {"status": "error", ...}
\*   success            {"status": "success", "data": {...}}
\*   success, data null {"status": "success", "data": null}
UpstreamReplies ==
    {"timeout", "not an object", "error status", "success", "success, data null"}

\* The _generate_mock_* methods: a success envelope around generated data.
GenerateMockData(signal) ==
    [type |-> "dict", status |-> "success", data |-> "dict", source |-> "generated"]

\* FlightAPIClient.get_flight_info, get_airport_weather, get_airline_stats and
\* get_flight_history with use_mock: the parsed body, or generated data when
\* anything inside the try block raises.
ClientGet(signal, reply) ==
    CASE reply = "timeout" -> GenerateMockData(signal)
      [] reply = "not an object" ->
            [type |-> "list", status |-> "None", data |-> "None", source |-> "upstream"]
      [] reply = "error status" ->
            [type |-> "dict", status |-> "error", data |-> "missing", source |-> "upstream"]
      [] reply = "success" ->
            [type |-> "dict", status |-> "success", data |-> "dict", source |-> "upstream"]
      [] reply = "success, data null" ->
            [type |-> "dict", status |-> "success", data |-> "null", source |-> "upstream"]

\* The neutral value predict_delay puts for a signal it has no data for: {}.
NoSignal == "{}"

\* Lines 414-418, one entry of enhanced_info:
\*   r.get('data', {}).get(key, {}) if r.get('status') == 'success' else {}
\* It raises AttributeError when r, or r['data'], has no get method.  The value
\* is given by where it came from: the upstream, or the client's generator.
ExtractSignal(r) ==
    IF r.type # "dict" THEN Raised
    ELSE IF r.status # "success" THEN Returned(NoSignal)
    ELSE IF r.data = "null" THEN Raised
    ELSE IF r.data = "missing" THEN Returned(NoSignal)
    ELSE Returned(r.source)

\* The fields predict_delay requires of a request (line 386).
required_fields ==
    {"airline", "flight_number", "origin", "destination", "departure_date",
     "departure_time"}

\* {**data, 'real_time_status': ..., ...}: data with the five signals added.
EnhancedInfo(data, signals) ==
    [k \in DOMAIN data \cup {"real_time_status", "origin_weather", "dest_weather",
                             "airline_performance", "historical_stats"} |->
        CASE k = "real_time_status"    -> signals["flight_info"]
          [] k = "origin_weather"      -> signals["origin_weather"]
          [] k = "dest_weather"        -> signals["dest_weather"]
          [] k = "airline_performance" -> signals["airline_stats"]
          [] k = "historical_stats"    -> signals["flight_history"]
          [] OTHER -> data[k]]

\* The cap of DatabaseManager.save_prediction (app.py) on the history's length.
HistoryCap == 500

\* The cap of DatabaseManager._save_to_json (database.py).
JsonHistoryCap == 1000

\* A slice index of Python on a list of n elements: a negative one counts from
\* the end, and one beyond either end is moved to that end.
SliceIndex(i, n) == IF i < 0 THEN Max(i + n, 0) ELSE Min(i, n)

\* s[start:] and s[:stop]
SliceFrom(s, start) == SubSeq(s, SliceIndex(start, Len(s)) + 1, Len(s))
SliceTo(s, stop) == SubSeq(s, 1, SliceIndex(stop, Len(s)))

\* DatabaseManager.load_history (app.py), the file read without an error: the
\* list as it was written.
LoadHistory(file) == file

\* The record save_prediction builds (app.py lines 109-115, database.py lines
\* 173-180); its timestamp is the clock's reading, user_ip and metadata left out.
NewRecord(h, flight_data, prediction) ==
    [id |-> Len(h) + 1, timestamp |-> now, flight_data |-> flight_data,
     prediction |-> prediction]

\* DatabaseManager.save_prediction (app.py lines 102-129), the file read and
\* written without an error: what it writes, the history with the new record
\* added, cut to its last HistoryCap records.
SavePrediction(file, flight_data, prediction) ==
    LET h     == LoadHistory(file)
        added == Append(h, NewRecord(h, flight_data, prediction))
    IN  IF Len(added) > HistoryCap THEN SliceFrom(added, 0 - HistoryCap) ELSE added

\* DatabaseManager.get_recent_predictions (app.py)
GetRecentPredictions(file, limit) ==
    LET h == LoadHistory(file)
    IN  IF Len(h) >= limit THEN SliceFrom(h, 0 - limit) ELSE h

\* The key of history.sort(key=lambda x: x.get('timestamp', ''), reverse=True):
\* the later record first.
LaterFirst(a, b) == a.timestamp > b.timestamp

\* DatabaseManager._load_from_json (database.py) with limit None: the file's
\* list, sorted by timestamp, the latest first.
LoadAllFromJson(file) == SortSeq(file, LaterFirst)

\* DatabaseManager._load_from_json (database.py) with an integer limit
\* (`history[:limit] if limit else history`).
LoadFromJson(file, limit) ==
    IF limit # 0 THEN SliceTo(LoadAllFromJson(file), limit) ELSE LoadAllFromJson(file)

\* DatabaseManager._save_to_json (database.py lines 166-197), the files read
\* and written without an error: what it writes to the history file.
SaveToJson(file, flight_data, prediction) ==
    LET h     == LoadAllFromJson(file)
        added == Append(h, NewRecord(h, flight_data, prediction))
    IN  IF Len(added) > JsonHistoryCap THEN SliceFrom(added, 0 - JsonHistoryCap) ELSE added

\* DatabaseManager.get_recent_predictions (database.py)
JsonGetRecentPredictions(file, limit) == LoadFromJson(file, limit)

\* The requests made: a query with every required field, the same without a
\* departure time, and an empty body.
RequestBodies ==
    {[airline |-> "CA", flight_number |-> "1234", origin |-> "PEK", destination |-> "PVG",
      departure_date |-> <<2024, 1, 1>>, departure_time |-> <<3, 0>>],
     [airline |-> "CA", flight_number |-> "1234", origin |-> "PEK", destination |-> "PVG",
      departure_date |-> <<2024, 1, 1>>],
     [k \in {} |-> ""]}

\* No get_recent_predictions call to speak of.
NoRecent == [called |-> FALSE, limit |-> 0, value |-> <<>>]

\* Before any request.
RequestInit ==
    /\ request = None
    /\ replies = [s \in Signals |-> "none"]
    /\ response = None
    /\ history = <<>>
    /\ manager = "app.py"
    /\ ids = <<>>
    /\ recent = NoRecent

\* The response of a request that was turned down or that failed.
ErrorResponse(code) == [code |-> code, success |-> FALSE]

\* POST /api/predict: predict_delay, from request.json to the response.
PredictDelay ==
    /\ request = None
    /\ \E data \in RequestBodies :
         /\ request' = data
         /\ IF ~ required_fields \subseteq DOMAIN data
            THEN /\ response' = ErrorResponse(400)
                 /\ UNCHANGED <<engineVars, replies, history, ids>>
            ELSE \E got \in [Signals -> UpstreamReplies] :
                 LET extracted == [s \in Signals |-> ExtractSignal(ClientGet(s, got[s]))]
                 IN  /\ replies' = got
                     /\ IF \E s \in Signals : extracted[s].raised
                        THEN /\ response' = ErrorResponse(500)
                             /\ UNCHANGED <<engineVars, history, ids>>
                        ELSE /\ PredictCall(EnhancedInfo(data, [s \in Signals |->
                                                                  extracted[s].value]),
                                            FALSE, RepeatMlEnvs)
                             /\ history' = SavePrediction(history, data, result')
                             /\ ids' = Append(ids, Len(LoadHistory(history)) + 1)
                             /\ response' =
                                  [code |-> 200, success |-> TRUE,
                                   prediction_id |-> ids'[Len(ids')],
                                   flight_info |-> data, prediction |-> result']
    /\ UNCHANGED <<manager, recent>>
    /\ UNCHANGED <<fetcherVars, threadVars>>

-----------------------------------------------------------------------------
(* The prediction history on its own: DatabaseManager of app.py, of database.py *)

\* How many save_prediction calls one behaviour makes: enough to pass the cap
\* of either module twice.
MaxSaves == 1002

\* The limits get_recent_predictions is called with (/api/history takes any
\* integer from the query string).
Limits == {0 - 1, 0, 1, 3, 10}

\* What the calls save: the model gives every record the same flight and result.
SavedFlight == [flight_number |-> "1234"]
SavedPrediction == [risk_level |-> "Low"]

\* DatabaseManager.__init__ of either module, no history file written yet.
HistoryInit ==
    /\ request = None
    /\ replies = [s \in Signals |-> "none"]
    /\ response = None
    /\ history = <<>>
    /\ manager \in {"app.py", "database.py"}
    /\ ids = <<>>
    /\ recent = NoRecent

\* One call of save_prediction of app.py; the clock has moved on by the time of
\* the next call.
SavePredictionCall ==
    /\ manager = "app.py"
    /\ Len(ids) < MaxSaves
    /\ history' = SavePrediction(history, SavedFlight, SavedPrediction)
    /\ ids' = Append(ids, Len(LoadHistory(history)) + 1)
    /\ now' = now + 1
    /\ recent' = NoRecent
    /\ UNCHANGED <<request, replies, response, manager>>
    /\ UNCHANGED <<cache, mock_flights, socketio, updating, ticks, last>>
    /\ UNCHANGED <<engineVars, threadVars>>

\* One call of save_prediction of database.py, db_type 'json'.
SaveToJsonCall ==
    /\ manager = "database.py"
    /\ Len(ids) < MaxSaves
    /\ history' = SaveToJson(history, SavedFlight, SavedPrediction)
    /\ ids' = Append(ids, Len(LoadAllFromJson(history)) + 1)
    /\ now' = now + 1
    /\ recent' = NoRecent
    /\ UNCHANGED <<request, replies, response, manager>>
    /\ UNCHANGED <<cache, mock_flights, socketio, updating, ticks, last>>
    /\ UNCHANGED <<engineVars, threadVars>>

\* One call of get_recent_predictions(limit) of app.py.
GetRecentPredictionsCall ==
    /\ manager = "app.py"
    /\ \E limit \in Limits :
         recent' = [called |-> TRUE, limit |-> limit,
                    value |-> GetRecentPredictions(history, limit)]
    /\ UNCHANGED <<request, replies, response, history, manager, ids>>
    /\ UNCHANGED <<engineVars, fetcherVars, threadVars>>

\* One call of get_recent_predictions(limit) of database.py, db_type 'json'.
JsonGetRecentPredictionsCall ==
    /\ manager = "database.py"
    /\ \E limit \in Limits :
         recent' = [called |-> TRUE, limit |-> limit,
                    value |-> JsonGetRecentPredictions(history, limit)]
    /\ UNCHANGED <<request, replies, response, history, manager, ids>>
    /\ UNCHANGED <<engineVars, fetcherVars, threadVars>>

-----------------------------------------------------------------------------
(* RealTimeDataFetcher called by several threads at once *)

\* The statements of get_flight_status and get_weather_data execute in some
\* interleaving; each step below is one that the interpreter executes without
\* switching threads: the membership test of line 76 / 127, the subscript read
\* of line 77 / 128, the clock read and comparison of line 78 / 129, the
\* computing of the data, the building of the tuple (datetime.now(), data), and
\* the subscript store of line 95 / 161.

\* The number of threads, and how many calls each makes.
ThreadCount == 2
CallsPerThread == 2

Threads == 1..ThreadCount

\* The calls the threads make: the weather of one airport, the status of the
\* first mock flight.
ThreadCalls ==
    {[op |-> "get_weather_data", key |-> WeatherKey("PEK")],
     [op |-> "get_flight_status", key |-> FlightKey(MockFlightNumber(1))]}

\* No tuple read or built yet.
NoEntry == [cached_time |-> 0 - 1, data |-> None]

\* A thread's locals before its first call.
NoFrame ==
    [op |-> "none", key |-> <<>>, cached |-> NoEntry, data |-> None, entry |-> NoEntry,
     calls |-> 0]

\* A thread's locals after a call has returned.
Left(f) == [NoFrame EXCEPT !.calls = f.calls]

ThreadInit ==
    /\ pc = [t \in Threads |-> "idle"]
    /\ frame = [t \in Threads |-> NoFrame]
    /\ written = <<>>

\* The subscript store done field by field: the time of an entry is replaced
\* first, and a reader may find the new time with the data of the old entry.
StoreEntryTorn(c, cache_key, entry) ==
    [k \in DOMAIN c \cup {cache_key} |->
        IF k # cache_key THEN c[k]
        ELSE IF cache_key \in DOMAIN c
        THEN [cached_time |-> entry.cached_time, data |-> c[cache_key].data]
        ELSE entry]

\* self.cache[cache_key] = entry: one store of the whole tuple.
StoreEntry(c, cache_key, entry) ==
    [k \in DOMAIN c \cup {cache_key} |-> IF k = cache_key THEN entry ELSE c[k]]

\* A thread enters get_flight_status or get_weather_data.
Begin(t) ==
    /\ pc[t] = "idle"
    /\ frame[t].calls < CallsPerThread
    /\ \E call \in ThreadCalls :
         frame' = [frame EXCEPT ![t] = [op |-> call.op, key |-> call.key,
                                        cached |-> NoEntry, data |-> None,
                                        entry |-> NoEntry, calls |-> @.calls + 1]]
    /\ pc' = [pc EXCEPT ![t] = "lookup"]
    /\ UNCHANGED <<cache, mock_flights, written>>

\* Lines 76 and 127: if cache_key in self.cache
Lookup(t) ==
    /\ pc[t] = "lookup"
    /\ pc' = [pc EXCEPT ![t] = IF frame[t].key \in DOMAIN cache THEN "read" ELSE "compute"]
    /\ UNCHANGED <<cache, mock_flights, frame, written>>

\* Lines 77 and 128: cached_time, data = self.cache[cache_key]
Read(t) ==
    /\ pc[t] = "read"
    /\ frame' = [frame EXCEPT ![t].cached = cache[frame[t].key]]
    /\ pc' = [pc EXCEPT ![t] = "expiry"]
    /\ UNCHANGED <<cache, mock_flights, written>>

\* Lines 78-79 and 129-130: return data if the entry is young enough.
Expiry(t) ==
    /\ pc[t] = "expiry"
    /\ IF TimedeltaSeconds(now - frame[t].cached.cached_time) < cache_timeout
       THEN /\ pc' = [pc EXCEPT ![t] = "idle"]
            /\ frame' = [frame EXCEPT ![t] = Left(@)]
       ELSE /\ pc' = [pc EXCEPT ![t] = "compute"]
            /\ UNCHANGED frame
    /\ UNCHANGED <<cache, mock_flights, written>>

\* Lines 85-92 and 132-158: the data is computed; for a flight it is the mock
\* flight itself, its status perhaps advanced.
Compute(t) ==
    /\ pc[t] = "compute"
    /\ IF frame[t].op = "get_weather_data"
       THEN /\ \E condition \in Conditions :
                 frame' = [frame EXCEPT ![t].data =
                              [airport |-> frame[t].key[2], condition |-> condition,
                               updated_at |-> now]]
            /\ UNCHANGED mock_flights
       ELSE LET i == FindFlight(frame[t].key[2])
            IN  /\ \E advance \in BOOLEAN :
                     mock_flights' = [mock_flights EXCEPT
                                        ![i].status = AdvancedStatus(@, advance)]
                /\ frame' = [frame EXCEPT ![t].data = FlightRef(i)]
    /\ pc' = [pc EXCEPT ![t] = "stamp"]
    /\ UNCHANGED <<cache, written>>

\* Lines 95 and 161, the right-hand side: (datetime.now(), data)
Stamp(t) ==
    /\ pc[t] = "stamp"
    /\ frame' = [frame EXCEPT ![t].entry = [cached_time |-> now, data |-> frame[t].data]]
    /\ pc' = [pc EXCEPT ![t] = "store"]
    /\ UNCHANGED <<cache, mock_flights, written>>

\* Lines 95 and 161, the store, and the return that follows.
Store(t) ==
    /\ pc[t] = "store"
    /\ cache' = StoreEntry(cache, frame[t].key, frame[t].entry)
    /\ written' = Append(written, [thread |-> t, key |-> frame[t].key,
                                    entry |-> frame[t].entry])
    /\ pc' = [pc EXCEPT ![t] = "idle"]
    /\ frame' = [frame EXCEPT ![t] = Left(@)]
    /\ UNCHANGED mock_flights

\* One step of one thread.
ThreadStep ==
    /\ \E t \in Threads :
         Begin(t) \/ Lookup(t) \/ Read(t) \/ Expiry(t) \/ Compute(t) \/ Stamp(t) \/ Store(t)
    /\ UNCHANGED <<socketio, updating, now, ticks, last>>
    /\ UNCHANGED <<engineVars, requestVars>>

-----------------------------------------------------------------------------
(* save_prediction of app.py called by several requests at once *)

\* Each request to /api/predict runs in a thread of its own and calls
\* db_manager.save_prediction (line 431); nothing locks the history file.  The
\* steps below are the ones between which another thread may run: reading the
\* file (line 106), building the record and the list to write (lines 109-122),
\* opening the file for writing, which empties it (line 125), and writing the
\* list and closing the file (line 126), after which the id is returned.

\* How many predictions each thread saves.
SavesPerThread == 2

\* A thread's locals before and between its calls.
NoSaveFrame == [history |-> <<>>, id |-> 0, calls |-> 0]

SaveThreadInit ==
    /\ pc = [t \in Threads |-> "idle"]
    /\ frame = [t \in Threads |-> NoSaveFrame]
    /\ written = <<>>

\* Line 106: history = self.load_history(); an emptied file does not parse, and
\* load_history answers [] then, as it does for an empty list.
LoadStep(t) ==
    /\ pc[t] = "idle"
    /\ frame[t].calls < SavesPerThread
    /\ frame' = [frame EXCEPT ![t] = [history |-> LoadHistory(history), id |-> 0,
                                      calls |-> @.calls + 1]]
    /\ pc' = [pc EXCEPT ![t] = "build"]
    /\ UNCHANGED <<history, ids, now>>

\* Lines 109-122: the record, appended to the thread's list, and the cut.
BuildStep(t) ==
    /\ pc[t] = "build"
    /\ frame' = [frame EXCEPT ![t] = [history |-> SavePrediction(@.history, SavedFlight,
                                                                SavedPrediction),
                                      id |-> Len(@.history) + 1, calls |-> @.calls]]
    /\ now' = now + 1
    /\ pc' = [pc EXCEPT ![t] = "open"]
    /\ UNCHANGED <<history, ids>>

\* Line 125: open(self.history_file, 'w') empties the file.
OpenStep(t) ==
    /\ pc[t] = "open"
    /\ history' = <<>>
    /\ pc' = [pc EXCEPT ![t] = "dump"]
    /\ UNCHANGED <<frame, ids, now>>

\* Lines 126-129: json.dump, the file closed, and the id returned.
DumpStep(t) ==
    /\ pc[t] = "dump"
    /\ history' = frame[t].history
    /\ ids' = Append(ids, frame[t].id)
    /\ frame' = [frame EXCEPT ![t] = [NoSaveFrame EXCEPT !.calls = frame[t].calls]]
    /\ pc' = [pc EXCEPT ![t] = "idle"]
    /\ UNCHANGED now

SaveStep ==
    /\ \E t \in Threads : LoadStep(t) \/ BuildStep(t) \/ OpenStep(t) \/ DumpStep(t)
    /\ UNCHANGED <<request, replies, response, manager, recent, written>>
    /\ UNCHANGED <<cache, mock_flights, socketio, updating, ticks, last>>
    /\ UNCHANGED engineVars

-----------------------------------------------------------------------------
(* Specifications *)

\* The fetcher while the engine is looked at: just built, one planned flight each.
FetcherIdle ==
    /\ cache = <<>>
    /\ mock_flights = [i \in 1..MockFlightCount |-> MockFlight(i, "planned", 0)]
    /\ socketio = FALSE
    /\ updating = FALSE
    /\ now = 0
    /\ ticks = 0
    /\ last = NoCall

\* The engine while the fetcher is looked at: just built, without a model.
EngineIdle ==
    /\ EngineInit
    /\ use_ml = FALSE

Init == EngineInit /\ FetcherIdle /\ RequestInit /\ ThreadInit

Next == PredictOnce

\* One predict call on a freshly built engine.
Spec == Init /\ [][Next]_vars

WideNext == PredictWide

\* One predict call on a freshly built engine, over many dates and hours.
WideSpec == Init /\ [][WideNext]_vars

\* The engine app.py imports: prediction_engine = DelayPredictionEngine(
\* use_ml=True), whose model files are there or not.
RequestEngine ==
    /\ EngineInit
    /\ use_ml = TRUE
    /\ ml_model = "loaded" => feature_encoder = "loaded"

TableInit == EngineIdle /\ FetcherIdle /\ RequestInit /\ ThreadInit

TableNext == PredictTable

\* One predict call on an engine without a learned model, over the whole of
\* the built-in tables.
TableSpec == TableInit /\ [][TableNext]_vars

RequestSpecInit == RequestEngine /\ FetcherIdle /\ RequestInit /\ ThreadInit

RequestNext == PredictDelay

\* One request to /api/predict.
RequestSpec == RequestSpecInit /\ [][RequestNext]_vars

ThreadSpecInit == EngineIdle /\ FetcherIdle /\ RequestInit /\ ThreadInit

ThreadNext ==
    \/ ThreadStep
    \/ Tick

\* Threads calling the data fetcher at the same time, the clock moving.
ThreadSpec == ThreadSpecInit /\ [][ThreadNext]_vars

RepeatNext == PredictAgain

\* Up to MaxCalls predict calls on the same engine.
RepeatSpec == Init /\ [][RepeatNext]_vars

HistorySpecInit == EngineIdle /\ FetcherIdle /\ HistoryInit /\ ThreadInit

HistoryNext ==
    \/ SavePredictionCall
    \/ SaveToJsonCall
    \/ GetRecentPredictionsCall
    \/ JsonGetRecentPredictionsCall

\* The calls on the prediction history, one at a time.
HistorySpec == HistorySpecInit /\ [][HistoryNext]_vars

SaveSpecInit == EngineIdle /\ FetcherIdle /\ RequestInit /\ SaveThreadInit

SaveNext == SaveStep

\* Requests saving their predictions at the same time.
SaveSpec == SaveSpecInit /\ [][SaveNext]_vars

CacheInit == EngineIdle /\ FetcherInit /\ RequestInit /\ ThreadInit

CacheNext ==
    \/ \E flight_number \in FlightNumbers : GetFlightStatus(flight_number)
    \/ \E airport_code \in WeatherAirports : GetWeatherData(airport_code)
    \/ Tick
    \/ StartRealTimeUpdates
    \/ UpdateLoopPass

\* The calls of the data fetcher, one at a time, with the clock moving between.
CacheSpec == CacheInit /\ [][CacheNext]_vars

-----------------------------------------------------------------------------
(* Claims about one predict call, checked under Spec *)

\* The last call has returned a dictionary.
HasResult == outcome = "returned"

\* The query of the last call parses: its date and time make a timestamp.
QueryParses ==
    /\ {"departure_date", "departure_time"} \subseteq DOMAIN flight_info
    /\ DateParses(flight_info.departure_date)
    /\ TimeParses(flight_info.departure_time)

\* The result of the last call was built by _format_prediction_result.
Formatted == HasResult /\ result.model_used # "default"

\* C1: for every query whose date and time parse, on every path, the returned
\* delay_probability lies in [0.05, 0.95].
C1_ProbabilityClamped ==
    (HasResult /\ QueryParses) =>
        (5000 <= result.delay_probability /\ result.delay_probability <= 95000)

\* C2: the estimated delay range and the confidence follow from the risk level:
\* VeryLow and Low give [0, 15) and 0.9, Medium gives [15, 45) and 0.8, High and
\* VeryHigh give [45, 120) and 0.7.
C2_BucketFollowsRisk ==
    Formatted =>
        /\ result.risk_level \in {"VeryLow", "Low"} =>
              (result.estimated_delay_minutes \in 0..14 /\ result.confidence = 90)
        /\ result.risk_level = "Medium" =>
              (result.estimated_delay_minutes \in 15..44 /\ result.confidence = 80)
        /\ result.risk_level \in {"High", "VeryHigh"} =>
              (result.estimated_delay_minutes \in 45..119 /\ result.confidence = 70)

\* C3: the risk level is VeryLow below 0.2, Low below 0.4, Medium below 0.6, High
\* below 0.8 and VeryHigh from 0.8 on, so that a probability of exactly 0.2, 0.4,
\* 0.6 or 0.8 is in the higher of its two neighbouring levels.
C3_RiskThresholds ==
    Formatted =>
        /\ result.risk_level = "VeryLow"  <=> delay_prob < 20000
        /\ result.risk_level = "Low"      <=> (20000 <= delay_prob /\ delay_prob < 40000)
        /\ result.risk_level = "Medium"   <=> (40000 <= delay_prob /\ delay_prob < 60000)
        /\ result.risk_level = "High"     <=> (60000 <= delay_prob /\ delay_prob < 80000)
        /\ result.risk_level = "VeryHigh" <=> 80000 <= delay_prob

\* A probability of exactly 0.4 was classified, as Medium.
C3_Witness == Formatted /\ delay_prob = 40000 /\ result.risk_level = "Medium"

C6_Rate(table, code) == IF code \in DOMAIN table THEN table[code].delay_rate ELSE 200

\* C6: without a learned model, for every carrier and airport code, known or
\* not, and every date and time that parse, predict returns a rule-engine
\* result computed with rate 0.2 for each unknown code.
C6_UnknownCodesUseDefaultRate ==
    (outcome # "none" /\ ~ MlAvailable /\ QueryParses /\ "airline" \in DOMAIN flight_info) =>
        /\ outcome = "returned"
        /\ result.model_used = "rules"
        /\ result.airline_info.historical_delay_rate
              = C6_Rate(LoadAirlineStats, flight_info.airline)
        /\ LET dt == Strptime(flight_info.departure_date, flight_info.departure_time)
               sum == 15000
                      + 30 * C6_Rate(LoadAirlineStats, flight_info.airline)
                      + 25 * ((C6_Rate(LoadAirportStats, flight_info.origin)
                               + C6_Rate(LoadAirportStats, flight_info.destination)) \div 2)
                      + 20 * GetTimeFactor(dt.hour, dt.weekday)
                      + 15 * GetSeasonFactor(dt.month, dt.day)
                      + 10 * GetRouteFactor(flight_info.origin, flight_info.destination)
           IN  /\ delay_prob = Max(5000, Min(95000, sum))
               /\ result.delay_probability = Round3(delay_prob)

\* Carrier ZZ from XXX to YYY was answered by the rule engine.
C6_Witness ==
    /\ HasResult
    /\ ~ MlAvailable
    /\ "airline" \in DOMAIN flight_info
    /\ flight_info.airline = "ZZ"
    /\ flight_info.origin = "XXX"
    /\ flight_info.destination = "YYY"
    /\ result.model_used = "rules"

\* The factors of a list other than the baseline factor.
C9_Specific(factors) == {i \in 1..Len(factors) : factors[i] # Baseline}

\* C9: the list of factors is never empty, and it holds the baseline factor, as
\* its last entry, exactly when it holds fewer than two other factors.
C9_BaselineIffFewFactors ==
    Formatted =>
        /\ Len(result.factors) >= 1
        /\ (\E i \in 1..Len(result.factors) : result.factors[i] = Baseline)
              <=> Cardinality(C9_Specific(result.factors)) < 2
        /\ \A i \in 1..Len(result.factors) :
              result.factors[i] = Baseline => i = Len(result.factors)

\* One specific factor was found, and the baseline factor was appended to it.
C9_Witness ==
    /\ Formatted
    /\ Len(result.factors) = 2
    /\ result.factors[1] # Baseline
    /\ result.factors[2] = Baseline

\* The query of the last call is well formed: it has every key predict reads,
\* and its date and time parse.
WellFormed ==
    /\ {"airline", "origin", "destination"} \subseteq DOMAIN flight_info
    /\ QueryParses

\* C12: predict calls the learned model first exactly when one is configured and
\* loaded, and returns its result when it gives one; when the model is absent
\* or its attempt fails, predict runs the rule engine, and for a well-formed
\* query that returns a rule-engine result.
C12_MlFirstThenRules ==
    outcome # "none" =>
        /\ ml_outcome # "not called" <=> MlAvailable
        /\ ml_outcome = "result" => (HasResult /\ result.model_used = "ML")
        /\ (ml_outcome # "result" /\ WellFormed) =>
              (HasResult /\ result.model_used = "rules")

\* The learned model was loaded, its attempt failed on a well-formed query, and
\* the rule engine answered.
C12_Witness ==
    /\ HasResult
    /\ WellFormed
    /\ ml_outcome = "None"
    /\ result.model_used = "rules"

\* The last call was given this query (and perhaps other keys).
QueryIs(airline, origin, destination, date, time) ==
    /\ outcome # "none"
    /\ "airline" \in DOMAIN flight_info
    /\ flight_info.airline = airline
    /\ flight_info.origin = origin
    /\ flight_info.destination = destination
    /\ flight_info.departure_date = date
    /\ flight_info.departure_time = time

\* The rule engine answered the last call.
ByRules == HasResult /\ result.model_used = "rules"

\* C13: for carrier CA from PEK to PVG on 2024-07-15 (a Monday) at 18:30 the
\* rule engine, which answers whenever no learned model does, returns
\* delay_probability 0.34 and risk level Low.
C13_ScenarioCaPekPvg ==
    QueryIs("CA", "PEK", "PVG", <<2024, 7, 15>>, <<18, 30>>) =>
        /\ Weekday(2024, 7, 15) = 0
        /\ ml_outcome # "result" => ByRules
        /\ ByRules => (result.delay_probability = 34000 /\ result.risk_level = "Low")

\* The rule engine answered that query with 0.34.
C13_Witness ==
    /\ QueryIs("CA", "PEK", "PVG", <<2024, 7, 15>>, <<18, 30>>)
    /\ ByRules
    /\ delay_prob = 34025
    /\ result.delay_probability = 34000

\* C14: for the unknown carrier ZZ from XXX to YYY on 2024-01-01 (a Monday) at
\* 03:00 the rule engine returns delay_probability 0.275 and risk level Low,
\* from rate 0.2 for the carrier and for both airports, time factor -0.10,
\* season factor +0.20 and route factor +0.05.
C14_ScenarioUnknownCodes ==
    QueryIs("ZZ", "XXX", "YYY", <<2024, 1, 1>>, <<3, 0>>) =>
        /\ Weekday(2024, 1, 1) = 0
        /\ ml_outcome # "result" => ByRules
        /\ ByRules =>
              /\ result.delay_probability = 27500
              /\ result.risk_level = "Low"
              /\ result.airline_info.historical_delay_rate = 200
              /\ result.route_info.origin.delay_rate = 200
              /\ result.route_info.destination.delay_rate = 200
              /\ GetAirlineFactor("ZZ") = 200
              /\ GetAirportFactor("XXX", "YYY") = 200
              /\ GetTimeFactor(3, 0) = 0 - 100
              /\ GetSeasonFactor(1, 1) = 200
              /\ GetRouteFactor("XXX", "YYY") = 50
              /\ delay_prob = 15000 + 30 * 200 + 25 * 200 - 20 * 100 + 15 * 200 + 10 * 50

\* The rule engine answered that query with 0.275.
C14_Witness ==
    /\ QueryIs("ZZ", "XXX", "YYY", <<2024, 1, 1>>, <<3, 0>>)
    /\ ByRules
    /\ result.delay_probability = 27500

\* No learned model answered the last call, and the rule engine raised in it
\* although the date and the time of the query parse (here: KeyError, on a key
\* the query lacks).
C16_InternalError ==
    /\ outcome # "none"
    /\ QueryParses
    /\ ml_outcome # "result"
    /\ LET a == RulesAttempt(flight_info)
       IN  FormatPredictionResult(a.delay_prob, flight_info, "rules", "None",
                                  a.factors, 0).raised

\* C16: predict raises nothing; when an error other than an unparseable date or
\* time occurs in the rule engine, predict returns the default prediction:
\* delay_probability 0.3, risk level Medium, 15 minutes, confidence 0.5, one
\* factor.
C16_InternalErrorGivesDefault ==
    /\ outcome # "none" => outcome = "returned"
    /\ C16_InternalError =>
          /\ result.model_used = "default"
          /\ result.delay_probability = 30000
          /\ result.risk_level = "Medium"
          /\ result.estimated_delay_minutes = 15
          /\ result.confidence = 50
          /\ Len(result.factors) = 1

\* A query without the airline key, its date and time parsing, was answered.
C16_Witness ==
    /\ C16_InternalError
    /\ "airline" \notin DOMAIN flight_info
    /\ HasResult
    /\ result.model_used = "default"

\* C21: every predict call, whether the learned model, the rule engine or the
\* default prediction answers it, leaves airline_delay_stats and
\* airport_delay_stats as they were and the caller's flight_info as it was given.
C21_PredictLeavesTablesAndInfo ==
    [][calls' = calls + 1 =>
          /\ airline_delay_stats' = airline_delay_stats
          /\ airport_delay_stats' = airport_delay_stats
          /\ flight_info' = given']_vars

\* The rule engine took a dictionary without an airline key, for airports the
\* tables do not hold, as far as its lookups.
C21_Witness ==
    /\ calls = 1
    /\ ml_outcome = "not called"
    /\ "airline" \notin DOMAIN given
    /\ RulesAttempt(given).ok
    /\ given.origin \notin DOMAIN airport_delay_stats
    /\ given.destination \notin DOMAIN airport_delay_stats

\* C25: for every result predict returns, the default prediction included, the
\* risk level is the threshold category of the returned delay_probability:
\* VeryLow below 0.2, Low below 0.4, Medium below 0.6, High below 0.8, else
\* VeryHigh.
C25_RiskIsCategoryOfReturnedProbability ==
    HasResult =>
        result.risk_level =
            (IF result.delay_probability < 20000 THEN "VeryLow"
             ELSE IF result.delay_probability < 40000 THEN "Low"
             ELSE IF result.delay_probability < 60000 THEN "Medium"
             ELSE IF result.delay_probability < 80000 THEN "High"
             ELSE "VeryHigh")

-----------------------------------------------------------------------------
(* Claims about the rule engine over many dates and hours, checked under WideSpec *)

\* The time factor as claimed: +0.25 for hours 7 to 9, +0.20 for hours 17 to 19,
\* +0.15 from Friday to Sunday, -0.10 for hours 0 to 5, added up.
C17_Time(hour, weekday) ==
    (IF hour \in 7..9 THEN 250 ELSE 0) + (IF hour \in 17..19 THEN 200 ELSE 0)
    + (IF weekday \in {4, 5, 6} THEN 150 ELSE 0) - (IF hour \in 0..5 THEN 100 ELSE 0)

\* The season factor as claimed: the first window the date is in.
C17_Season(month, day) ==
    CASE month \in {1, 2} -> 200
      [] month \in {7, 8} -> 150
      [] month = 10 /\ day \in 1..7 -> 250
      [] month = 5 /\ day \in 1..5 -> 200
      [] OTHER -> 0

\* The route factor as claimed.
C17_Route(origin, destination) ==
    CASE <<origin, destination>> \in busy_routes -> 150
      [] <<origin, destination>> \notin busy_routes
         /\ <<destination, origin>> \in busy_routes -> 100
      [] OTHER -> 50

\* C17: for every carrier, origin, destination, hour, weekday, month and day the
\* rule engine's probability is clamp(0.15 + 0.30 carrier + 0.25 mean(origin,
\* destination) + 0.20 time + 0.15 season + 0.10 route, 0.05, 0.95).
C17_RuleFormula ==
    (ByRules /\ WellFormed) =>
        LET date == flight_info.departure_date
            hour == flight_info.departure_time[1]
            score == 15000
                     + 30 * C6_Rate(LoadAirlineStats, flight_info.airline)
                     + (25 * (C6_Rate(LoadAirportStats, flight_info.origin)
                              + C6_Rate(LoadAirportStats, flight_info.destination))) \div 2
                     + 20 * C17_Time(hour, Weekday(date[1], date[2], date[3]))
                     + 15 * C17_Season(date[2], date[3])
                     + 10 * C17_Route(flight_info.origin, flight_info.destination)
        IN  /\ delay_prob = (IF score < 5000 THEN 5000
                             ELSE IF score > 95000 THEN 95000 ELSE score)
            /\ result.delay_probability = Round3(delay_prob)

\* The rule engine scored the 19:30 flight of carrier 9C on 8 October, the day
\* after the golden week.
C17_Witness ==
    /\ ByRules
    /\ WellFormed
    /\ flight_info.departure_date = <<2024, 10, 8>>
    /\ flight_info.departure_time[1] = 19
    /\ flight_info.airline = "9C"
    /\ delay_prob = 15000 + 30 * 280 + 25 * 235 + 20 * 200 + 10 * 150

\* C18: the feature is_holiday_season is 1 exactly when the month is 1, 2, 7 or
\* 8, or the date is 1 to 7 October, or 1 to 5 May, and 0 on every other date,
\* 8 to 31 October among them.
C18_HolidaySeason ==
    features # None =>
        (features.is_holiday_season = 1
            <=> \/ features.month \in {1, 2, 7, 8}
                \/ features.month = 10 /\ features.day \in 1..7
                \/ features.month = 5 /\ features.day \in 1..5)

\* The texts of the factors in the last result.
FactorTexts == {result.factors[i].text : i \in 1..Len(result.factors)}

\* The notes of the explainer that say nothing about the season.
C19_OtherNotes ==
    {"historical delay rate is high", "is a busy airport", "arrival delay risk is high",
     "morning peak", "evening peak", "weekend traffic", Baseline.text}

\* C19: the explanation holds a season note for every date inside a season
\* window: the spring festival note in months 1 and 2, the summer note in
\* months 7 and 8, and a golden-week note from 1 to 7 October.
C19_SeasonNoteInEveryWindow ==
    (Formatted /\ QueryParses) =>
        LET month == flight_info.departure_date[2]
            day   == flight_info.departure_date[3]
        IN  /\ month \in {1, 2} => "spring festival travel season" \in FactorTexts
            /\ month \in {7, 8} => "summer travel season" \in FactorTexts
            /\ (month = 10 /\ day \in 1..7) =>
                  \E text \in FactorTexts \ C19_OtherNotes :
                      text \notin {"spring festival travel season", "summer travel season"}

\* The magnitude of a factor of the last result: its weighted contribution to
\* the score, in 1/100000.
C20_Magnitude(factor) ==
    CASE factor.text = "historical delay rate is high" ->
             30 * C6_Rate(LoadAirlineStats, flight_info.airline)
      [] factor.text = "is a busy airport" ->
             (25 * C6_Rate(LoadAirportStats, flight_info.origin)) \div 2
      [] factor.text = "arrival delay risk is high" ->
             (25 * C6_Rate(LoadAirportStats, flight_info.destination)) \div 2
      [] factor.text = "morning peak" -> 20 * 250
      [] factor.text = "evening peak" -> 20 * 200
      [] factor.text = "weekend traffic" -> 20 * 150
      [] factor.text = "spring festival travel season" -> 15 * 200
      [] factor.text = "summer travel season" -> 15 * 150
      [] OTHER -> 0

\* C20: the factors of the explanation are listed in descending order of
\* magnitude, the baseline factor, when there is one, last.
C20_FactorsByDescendingMagnitude ==
    Formatted =>
        /\ \A i \in 1..Len(result.factors) : \A j \in (i + 1)..Len(result.factors) :
              C20_Magnitude(result.factors[i]) >= C20_Magnitude(result.factors[j])
        /\ \A i \in 1..Len(result.factors) :
              result.factors[i] = Baseline => i = Len(result.factors)

-----------------------------------------------------------------------------
(* Claims about the rule engine over the built-in tables, checked under TableSpec *)

\* The weighted sum the rule engine computed for the last query, before the clamp.
C26_Score ==
    BaseProb(Get(flight_info, "airline", "CA"), Get(flight_info, "origin", "PEK"),
             Get(flight_info, "destination", "PVG"),
             Strptime(Get(flight_info, "departure_date", <<2024, 1, 1>>),
                      Get(flight_info, "departure_time", <<12, 0>>)))

\* C26: with the built-in tables, for every carrier, origin, destination, date
\* and time the rule engine's sum lies strictly between 0.05 and 0.95, so that
\* the clamp leaves it as it is, and the risk level of the result is Low or
\* Medium, never VeryLow, High or VeryHigh.
C26_RuleScoreInsideClamp ==
    ByRules =>
        /\ 5000 < C26_Score /\ C26_Score < 95000
        /\ delay_prob = C26_Score
        /\ result.risk_level \in {"Low", "Medium"}

\* The lowest sum: carrier MF from NKG to NKG on a Tuesday night in March, 0.2035.
C26_Witness ==
    /\ ByRules
    /\ QueryIs("MF", "NKG", "NKG", <<2024, 3, 5>>, <<3, 0>>)
    /\ delay_prob = 20350
    /\ result.risk_level = "Low"

-----------------------------------------------------------------------------
(* Claims about a request to /api/predict, checked under RequestSpec *)

\* C15: whichever upstream calls of a request fail (flight status, the two
\* weathers, carrier performance, flight history), a request that has every
\* required field ends with a successful prediction: no upstream failure makes
\* the request fail.
C15_UpstreamFailuresAbsorbed ==
    (response # None /\ required_fields \subseteq DOMAIN request) =>
        /\ response.code = 200
        /\ response.success
        /\ response.prediction = result
        /\ result.model_used \in {"ML", "rules"}

-----------------------------------------------------------------------------
(* Claims about the prediction history, checked under HistorySpec *)

\* The cap of the module that keeps the history.
CapOf(m) == IF m = "app.py" THEN HistoryCap ELSE JsonHistoryCap

\* The timestamps of the records of a list.
Timestamps(h) == {h[i].timestamp : i \in 1..Len(h)}

\* C23: after any sequence of save_prediction calls the stored history holds
\* the most recent records only, at most 500 of them (app.py) or 1000
\* (database.py): a save that exceeds the cap keeps the new record and drops the
\* oldest ones.
C23_HistoryKeepsMostRecent ==
    /\ Len(history) = Min(Len(ids), CapOf(manager))
    /\ Timestamps(history) = (now - Len(history)) .. (now - 1)

\* C24: for every limit and every stored history, get_recent_predictions(limit)
\* returns the min(limit, number of records) most recent records, and never
\* more than limit records (stated for the limits from 0 on).
C24_RecentAreTheLatest ==
    (recent.called /\ recent.limit >= 0) =>
        /\ Len(recent.value) = Min(recent.limit, Len(history))
        /\ Len(recent.value) <= recent.limit
        /\ Timestamps(recent.value) \subseteq Timestamps(history)
        /\ Cardinality(Timestamps(recent.value)) = Len(recent.value)
        /\ \A t \in Timestamps(history) \ Timestamps(recent.value) :
              \A u \in Timestamps(recent.value) : t < u

\* C29: after any sequence of save_prediction calls, also one that exceeds the
\* cap, no two records of the stored history have the same id, and every id
\* save_prediction returns differs from all it returned before.
C29_IdsAreUnique ==
    /\ Cardinality({history[i].id : i \in 1..Len(history)}) = Len(history)
    /\ Cardinality({ids[i] : i \in 1..Len(ids)}) = Len(ids)

-----------------------------------------------------------------------------
(* Claims about concurrent save_prediction calls, checked under SaveSpec *)

\* C30: when several requests run save_prediction at the same time on a history
\* that was empty, their total below the cap, then once all of them have
\* completed the stored history holds one record for each completed call: no
\* record is lost to an interleaving of load, append and write.
C30_NoSavedRecordLost ==
    (\A t \in Threads : pc[t] = "idle") => Len(history) = Len(ids)

-----------------------------------------------------------------------------
(* Claims about repeated predict calls, checked under RepeatSpec *)

\* The last call was given the flight_info of an earlier call that is
\* remembered, and both returned a result by the same path.
SameInputAgain(path) ==
    /\ remembered # None
    /\ remembered.call < calls
    /\ remembered.flight_info = flight_info
    /\ ~ remembered.raised
    /\ HasResult
    /\ remembered.model_used = path
    /\ result.model_used = path

\* C7: two rule-engine predict calls with the same carrier, origin, destination,
\* date and time return the same delay_probability, whatever calls were made
\* before or in between.
C7_SameInputSameProbability ==
    SameInputAgain("rules") => result.delay_probability = remembered.delay_probability

\* The first call and the third were given the same flight_info and both were
\* answered by the rule engine.
C7_Witness == SameInputAgain("rules") /\ remembered.call = 1 /\ calls = 3

\* C8: two predict calls with identical input (answered by the same path)
\* return the same estimated_delay_minutes.
C8_SameInputSameEstimate ==
    \A path \in {"rules", "ML", "default"} :
        SameInputAgain(path) =>
            result.estimated_delay_minutes = remembered.estimated_delay_minutes

-----------------------------------------------------------------------------
(* Claims about concurrent calls of the fetcher, checked under ThreadSpec *)

\* The stores into the cache under a key, by their place in the order of
\* completion.
C11_Stores(cache_key) == {i \in 1..Len(written) : written[i].key = cache_key}

\* C11: under any interleaving of lookups on the same or different keys, the
\* tuple a reader takes from the cache is one that a single writer built and
\* stored, whole; and the cache holds, for each key written, the one entry whose
\* store completed last (so also after two threads missed on the same key).
C11_WholeEntriesLastWriteWins ==
    /\ \A t \in Threads :
          pc[t] = "expiry" =>
              \E i \in C11_Stores(frame[t].key) : frame[t].cached = written[i].entry
    /\ DOMAIN cache = {written[i].key : i \in 1..Len(written)}
    /\ \A cache_key \in DOMAIN cache :
          \E i \in C11_Stores(cache_key) :
              /\ \A j \in C11_Stores(cache_key) : j <= i
              /\ cache[cache_key] = written[i].entry

\* Two threads missed on the same key at the same time and stored different
\* data, and a reader has taken the entry stored last.
C11_Witness ==
    /\ ticks = 0
    /\ Len(written) = 2
    /\ written[1].key = written[2].key
    /\ written[1].thread # written[2].thread
    /\ written[1].entry # written[2].entry
    /\ \E t \in Threads : pc[t] = "expiry" /\ frame[t].cached = written[2].entry

-----------------------------------------------------------------------------
(* Claims about the cache, checked under CacheSpec *)

\* The last call looked up a key the cache held.
LookedUpEntry == last.op \in {"get_flight_status", "get_weather_data"} /\ last.had_entry

\* C4: a lookup returns the cached value without computing exactly when the
\* entry is younger than the timeout, now - stored_at < 300 s; an older entry,
\* also one older than a day, is expired: a fresh value is computed and stored.
C4_HitIffYoungerThanTimeout ==
    LookedUpEntry =>
        /\ last.outcome = "hit" <=> last.age < cache_timeout
        /\ last.age >= cache_timeout =>
              (last.outcome = "computed" /\ cache[last.key].cached_time = last.at)

\* C10: when the computation behind a miss fails, the failure reaches the caller
\* (no value is returned) and no entry is stored for the key; a lookup of the
\* same key right after it computes again instead of returning cached data.
C10_FailureNotCached ==
    /\ last.outcome = "raised" => (last.value = None /\ last.key \notin DOMAIN cache)
    /\ last.retry => last.outcome # "hit"

\* A lookup failed, and the lookup of the same key right after it failed again.
C10_Witness == last.retry /\ last.outcome = "raised"

\* C22: a get_flight_status call for a flight number that is not among the
\* mock flights and has no live cache entry creates a flight of that number with
\* status planned and delay_minutes 0, stores it in the cache under the flight's
\* key and returns it.
C22_UnknownFlightCreated ==
    (/\ last.op = "get_flight_status"
     /\ FindFlight(last.key[2]) = 0
     /\ ~ (last.had_entry /\ TimedeltaSeconds(last.age) < cache_timeout))
    => /\ last.outcome = "computed"
       /\ last.value.flight_number = last.key[2]
       /\ last.value.status = "planned"
       /\ last.value.delay_minutes = 0
       /\ last.key \in DOMAIN cache
       /\ cache[last.key].data = last.value

\* C27: from the moment a flight-status entry is stored until it expires, a
\* get_flight_status call for its key returns a value equal to the one that was
\* stored, whatever the update loop and other calls did in between: when the
\* call before stored or returned the entry's value, a hit on the same key
\* returns that value again.
C27_HitReturnsWhatWasStored ==
    [][(/\ last.op = "get_flight_status"
        /\ last.outcome \in {"computed", "hit"}
        /\ last'.op = "get_flight_status"
        /\ last'.key = last.key
        /\ last'.outcome = "hit"
        /\ last' # last)
       => last'.value = last.value]_vars

\* C28: whatever the calls of get_flight_status and the passes of the update
\* loop, the status of a mock flight changes only by one step forward in the
\* sequence planned, checkin, boarding, departed, arrived: it never moves back
\* or skips a step, arrived is final, and a delayed or cancelled flight keeps
\* its status.
C28_StatusOnlyStepsForward ==
    [][\A i \in 1..Len(mock_flights) :
         mock_flights'[i].status # mock_flights[i].status =>
             <<mock_flights[i].status, mock_flights'[i].status>> \in
                 {<<"planned", "checkin">>, <<"checkin", "boarding">>,
                  <<"boarding", "departed">>, <<"departed", "arrived">>}]_vars

=============================================================================
